---- MODULE Spec2Model ----
(***************************************************************************)
(* Goal Tracker PDF generator (src/goal_tracker.py): the LayoutManager     *)
(* object (construction, its geometry getters and its static calendar      *)
(* helpers) and the month_lines scan of draw_grid / draw_monthly_column.   *)
(*                                                                         *)
(* Lengths.  The program computes with floats in PDF points.  The model    *)
(* holds every length as an integer number of 1/520 point, so that one     *)
(* inch is 72 * 520 units.  Margins are drawn in tenths of an inch and     *)
(* column widths in twentieths of an inch; every length the program        *)
(* derives from them (a half, a tenth of an inch, the division by 52) is   *)
(* then a whole number of units, and \div is exact.                        *)
(***************************************************************************)
EXTENDS Integers, Sequences, FiniteSets, TLC

VARIABLES
    page_config,            \* LayoutManager.page_config (a PageConfig)
    layout_config,          \* LayoutManager.layout_config
    available_width,        \* LayoutManager.available_width
    available_height,       \* LayoutManager.available_height
    calculated_row_height,  \* LayoutManager.calculated_row_height
    last_call,              \* outcome of the most recent method call
    proc,                   \* drawing method whose scan is running
    pc,                     \* position inside that method
    week,                   \* loop variable of the scan
    current_month,          \* local of the scan
    month_week_count,       \* local of the scan
    month_lines,            \* local of the scan: month -> list of weeks
    marks,                  \* the marks emitted on the canvas, in order
    quarter_num,            \* loop variable of the quarter loops
    month_num,              \* loop variable of the month loops
    year_arg,               \* the year argument of GoalTrackerPDF(config, year)
    clock_year,             \* datetime.now().year when it is constructed
    twin_clock_year,        \* the same for the second instance
    year,                   \* GoalTrackerPDF.year
    twin_year,              \* .year of a second instance, built on another day
    twin_marks,             \* the marks the second instance emits
    row_index,              \* loop variable of draw_weekly_column
    main_pc,                \* position inside main()
    args_output,            \* args.output: None or a path
    config_file,            \* what --config names: None until it is read
    raised_exc,             \* the exception main() caught, "none" if none
    events,                 \* what main() has done so far, in order
    stdout,                 \* lines printed to standard output
    stderr,                 \* lines printed to standard error
    exit_code,              \* None while main() runs, then the exit status
    canvas,                 \* the graphics state of a canvas and what it drew
    gen_pc                  \* position inside generate()

vars == <<page_config, layout_config, available_width, available_height,
          calculated_row_height, last_call, proc, pc, week, current_month,
          month_week_count, month_lines, marks, quarter_num, month_num,
          year_arg, clock_year, twin_clock_year, year, twin_year, twin_marks,
          row_index, main_pc, args_output, config_file, raised_exc, events,
          stdout, stderr, exit_code, canvas, gen_pc>>

layoutVars == <<page_config, layout_config, available_width, available_height,
                calculated_row_height>>

scanVars == <<proc, pc, week, current_month, month_week_count, month_lines>>

gridVars == <<marks, quarter_num, month_num>>

weeklyVars == <<year_arg, clock_year, twin_clock_year, year, twin_year,
                twin_marks, row_index>>

mainVars == <<main_pc, args_output, config_file, raised_exc, events, stdout,
              stderr, exit_code>>

renderVars == <<canvas, gen_pc>>

\* colours are RGB triples; the canvas holds each component in 255ths, so
\* that x / 255 is x of these units and 0 is 0
Black == <<0, 0, 0>>

\* a canvas as reportlab creates it: black stroke and fill, solid lines,
\* nothing drawn; widths are in hundredths of a point
NewCanvas ==
    [stroke |-> Black, fill |-> Black, dash |-> <<>>, line_width |-> 100,
     font |-> <<"Helvetica", 12>>, ops |-> <<>>]

----------------------------------------------------------------------------
(* Units and bounds *)

inch == 72 * 10 * 52

MaxMarginInches == 6
MaxWeekArg == 54
MaxMonthArg == 15

\* margins["top"], margins["bottom"] in tenths of an inch
MarginTenths == {0, 1} \cup {10 * k : k \in 1..MaxMarginInches}

\* arguments tried on the week helpers and on get_month_abbreviation
WeekArgs == (52 - MaxWeekArg)..MaxWeekArg
MonthArgs == (12 - MaxMonthArg)..MaxMonthArg

\* width and height as get_page_config sets them (8.5 x 11 inches)
PageConfigs ==
    { [width |-> (85 * inch) \div 10,
       height |-> 11 * inch,
       top_margin |-> (t * inch) \div 10,
       bottom_margin |-> (b * inch) \div 10,
       left_margin |-> inch \div 2,
       right_margin |-> inch \div 2] :
      t \in MarginTenths, b \in MarginTenths }

\* the layout section, widths in twentieths of an inch: 1.25, 1.25, 4.5 and
\* 0.15 inches, the layout of the test fixture
LayoutConfigs ==
    { [quarterly_column_width |-> 25, monthly_column_width |-> 25,
       weekly_column_width |-> 90, checkbox_size |-> 3] }

MaxColumnInches == 2
MaxYear == 2030

\* the years tried; 2015, 2020 and 2026 have an ISO week 53
Years == 2015..MaxYear

\* the years the clock may show when a GoalTrackerPDF is constructed
ClockYears == {MaxYear - 1, MaxYear}

\* an optional argument: None, or a value
None == [given |-> FALSE, value |-> 0]
Given(v) == [given |-> TRUE, value |-> v]

\* column widths tried on the column getters, in twentieths of an inch:
\* negative, zero, the widths of the test fixture and whole inches
ColumnTwentieths == {-5, 0, 3, 25, 90} \cup {20 * k : k \in 1..MaxColumnInches}

ColumnLayoutConfigs ==
    { [quarterly_column_width |-> q, monthly_column_width |-> m,
       weekly_column_width |-> w, checkbox_size |-> c] :
      q \in ColumnTwentieths, m \in ColumnTwentieths,
      w \in ColumnTwentieths, c \in ColumnTwentieths }

----------------------------------------------------------------------------
(* Python values *)

Returned(v) == [raised |-> FALSE, value |-> v]
Raised(e) == [raised |-> TRUE, value |-> e]

Min(a, b) == IF a <= b THEN a ELSE b

\* list[i] of Python: 0-based, a negative index counts from the end, an
\* index outside -len..len-1 raises IndexError
PyIndex(list, i) ==
    IF 0 <= i /\ i < Len(list) THEN Returned(list[i + 1])
    ELSE IF -Len(list) <= i /\ i < 0 THEN Returned(list[Len(list) + i + 1])
    ELSE Raised("IndexError")

\* range(a, b) of Python
PyRange(a, b) == a..(b - 1)

----------------------------------------------------------------------------
(* datetime of Python: a date is its proleptic Gregorian ordinal (day 1 is  *)
(* 0001-01-01, a Monday); timedelta(days=n) adds n to it                    *)

is_leap(y) == y % 4 = 0 /\ (y % 100 # 0 \/ y % 400 = 0)

days_before_year(y) ==
    (y - 1) * 365 + (y - 1) \div 4 - (y - 1) \div 100 + (y - 1) \div 400

days_in_month(y, m) ==
    IF m = 2 THEN (IF is_leap(y) THEN 29 ELSE 28)
    ELSE IF m \in {4, 6, 9, 11} THEN 30 ELSE 31

RECURSIVE days_before_month(_, _)
days_before_month(y, m) ==
    IF m = 1 THEN 0
    ELSE days_before_month(y, m - 1) + days_in_month(y, m - 1)

\* datetime(y, m, d)
ymd2ord(y, m, d) == days_before_year(y) + days_before_month(y, m) + d

RECURSIVE year_from(_, _)
year_from(n, y) ==
    IF n <= days_before_year(y + 1) THEN y ELSE year_from(n, y + 1)

RECURSIVE month_from(_, _, _)
month_from(n, y, m) ==
    IF n <= days_before_year(y) + days_before_month(y, m) + days_in_month(y, m)
    THEN m ELSE month_from(n, y, m + 1)

\* the year, month and day attributes of the date with ordinal n
ord2ymd(n) ==
    LET y == year_from(n, (n - 1) \div 366 + 1)
        m == month_from(n, y, 1)
    IN  [year |-> y, month |-> m,
         day |-> n - days_before_year(y) - days_before_month(y, m)]

\* date.weekday(): 0 = Monday .. 6 = Sunday
weekday(n) == (n + 6) % 7

\* the Monday of ISO week 1 of year y
isoweek1monday(y) ==
    LET firstday == ymd2ord(y, 1, 1)
        firstweekday == (firstday + 6) % 7
        week1monday == firstday - firstweekday
    IN  IF firstweekday > 3 THEN week1monday + 7 ELSE week1monday

\* date.isocalendar(): <<ISO year, ISO week, ISO weekday>>
isocalendar(n) ==
    LET y == ord2ymd(n).year
        wk == (n - isoweek1monday(y)) \div 7
        dy == (n - isoweek1monday(y)) % 7
    IN  IF wk < 0
        THEN <<y - 1, (n - isoweek1monday(y - 1)) \div 7 + 1, dy + 1>>
        ELSE IF wk >= 52 /\ n >= isoweek1monday(y + 1)
        THEN <<y + 1, 1, dy + 1>>
        ELSE <<y, wk + 1, dy + 1>>

decimal_digits == <<"0", "1", "2", "3", "4", "5", "6", "7", "8", "9">>

\* str(n) of a non-negative integer, as an f-string formats it
RECURSIVE PyStr(_)
PyStr(n) ==
    IF n < 10 THEN decimal_digits[n + 1]
    ELSE PyStr(n \div 10) \o decimal_digits[(n % 10) + 1]

----------------------------------------------------------------------------
(* LayoutManager: class constants *)

WEEKS_IN_YEAR == 52
WEEKS_PER_QUARTER == 13
WEEKS_PER_MONTH == 4
MONTHS_IN_YEAR == 12
QUARTERS_IN_YEAR == 4

CATCH_UP_WEEKS_three == {13, 26, 39}

CATCH_UP_WEEKS == {13, 26, 39, 52}

----------------------------------------------------------------------------
(* LayoutManager: construction *)

calculate_dimensions_uncapped(p) ==
    LET bonus_height == p.bottom_margin
        avail_h == p.height - p.top_margin - p.bottom_margin + bonus_height
        header_height == (6 * inch) \div 10
        available_for_rows == avail_h - header_height
    IN  [available_width |-> p.width - p.left_margin - p.right_margin,
         available_height |-> avail_h,
         calculated_row_height |-> available_for_rows \div WEEKS_IN_YEAR]

\* _calculate_dimensions: the three fields it assigns, from the PageConfig
calculate_dimensions(p) ==
    LET bonus_height == Min(inch \div 10, p.bottom_margin \div 2)
        avail_h == p.height - p.top_margin - p.bottom_margin + bonus_height
        header_height == (6 * inch) \div 10
        available_for_rows == avail_h - header_height
    IN  [available_width |-> p.width - p.left_margin - p.right_margin,
         available_height |-> avail_h,
         calculated_row_height |-> available_for_rows \div WEEKS_IN_YEAR]

----------------------------------------------------------------------------
(* LayoutManager: geometry getters *)

get_row_height == calculated_row_height

get_header_height_large == (7 * inch) \div 10

get_header_height == inch \div 2

get_week_y_position_from_zero(week_number) ==
    page_config.height - page_config.top_margin - get_header_height
        - week_number * get_row_height

get_week_y_position(week_number) ==
    page_config.height - page_config.top_margin - get_header_height
        - (week_number - 1) * get_row_height

\* layout_config[key] * inch, the key holding twentieths of an inch
col_width(key) == (layout_config[key] * inch) \div 20

get_column_widths ==
    [quarterly |-> col_width("quarterly_column_width"),
     monthly |-> col_width("monthly_column_width"),
     weekly |-> col_width("weekly_column_width"),
     checkbox |-> col_width("checkbox_size")]

get_column_x_positions_from_margin ==
    LET col_width_q == col_width("quarterly_column_width")
        col_width_m == col_width("monthly_column_width")
        col_width_w == col_width("weekly_column_width")
        x_quarterly == page_config.left_margin
        x_monthly == x_quarterly + col_width_q
        x_weekly == x_monthly + col_width_m
        x_checkbox == x_weekly + col_width_w
    IN  [quarterly |-> x_quarterly, monthly |-> x_monthly,
         weekly |-> x_weekly, checkbox |-> x_checkbox]

get_column_x_positions ==
    LET col_width_q == col_width("quarterly_column_width")
        col_width_m == col_width("monthly_column_width")
        col_width_w == col_width("weekly_column_width")
        col_width_checkbox == col_width("checkbox_size")
        total_grid_width ==
            col_width_q + col_width_m + col_width_w + col_width_checkbox
        x_start == (page_config.width - total_grid_width) \div 2
        x_quarterly == x_start
        x_monthly == x_quarterly + col_width_q
        x_weekly == x_monthly + col_width_m
        x_checkbox == x_weekly + col_width_w
    IN  [quarterly |-> x_quarterly, monthly |-> x_monthly,
         weekly |-> x_weekly, checkbox |-> x_checkbox]

----------------------------------------------------------------------------
(* LayoutManager: static calendar helpers *)

get_quarter_for_week_ceil(week_number) ==
    week_number \div WEEKS_PER_QUARTER + 1

get_quarter_for_week(week_number) ==
    (week_number - 1) \div WEEKS_PER_QUARTER + 1

month_mapping_short ==
    << <<PyRange(1, 5), 1>>, <<PyRange(5, 9), 2>>, <<PyRange(9, 13), 3>>,
       <<PyRange(14, 18), 4>>, <<PyRange(18, 22), 5>>, <<PyRange(22, 26), 6>>,
       <<PyRange(27, 31), 7>>, <<PyRange(31, 35), 8>>, <<PyRange(35, 39), 9>>,
       <<PyRange(40, 44), 10>>, <<PyRange(44, 48), 11>>,
       <<PyRange(48, 51), 12>> >>

month_mapping_calendar ==
    << <<PyRange(1, 6), 1>>, <<PyRange(6, 10), 2>>, <<PyRange(10, 13), 3>>,
       <<PyRange(14, 18), 4>>, <<PyRange(18, 23), 5>>, <<PyRange(23, 26), 6>>,
       <<PyRange(27, 32), 7>>, <<PyRange(32, 36), 8>>, <<PyRange(36, 39), 9>>,
       <<PyRange(40, 45), 10>>, <<PyRange(45, 49), 11>>,
       <<PyRange(49, 52), 12>> >>

\* the dict of get_month_for_week, in insertion order: <<range, month>>
month_mapping ==
    << <<PyRange(1, 5), 1>>, <<PyRange(5, 9), 2>>, <<PyRange(9, 13), 3>>,
       <<PyRange(14, 18), 4>>, <<PyRange(18, 22), 5>>, <<PyRange(22, 26), 6>>,
       <<PyRange(27, 31), 7>>, <<PyRange(31, 35), 8>>, <<PyRange(35, 39), 9>>,
       <<PyRange(40, 44), 10>>, <<PyRange(44, 48), 11>>,
       <<PyRange(48, 52), 12>> >>

\* the for loop over month_mapping.items() from entry i on
RECURSIVE month_lookup(_, _)
month_lookup(week_number, i) ==
    IF i > Len(month_mapping) THEN -1
    ELSE IF week_number \in month_mapping[i][1] THEN month_mapping[i][2]
    ELSE month_lookup(week_number, i + 1)

get_month_for_week(week_number) ==
    IF week_number \in CATCH_UP_WEEKS THEN -1
    ELSE month_lookup(week_number, 1)

is_catch_up_week(week_number) == week_number \in CATCH_UP_WEEKS

abbreviations ==
    <<"Jan", "Feb", "Mar", "Apr", "May", "Jun",
      "Jul", "Aug", "Sep", "Oct", "Nov", "Dec">>

get_month_abbreviation_unguarded(month_number) ==
    PyIndex(abbreviations, month_number - 1)

get_month_abbreviation(month_number) ==
    IF 1 <= month_number /\ month_number <= 12
    THEN PyIndex(abbreviations, month_number - 1)
    ELSE Returned("")

----------------------------------------------------------------------------
(* Initial state: a LayoutManager has just been constructed *)

NoCall == [fn |-> "none", args |-> <<>>, raised |-> FALSE, value |-> 0]

empty_month_lines == [m \in 1..12 |-> <<>>]

Init ==
    /\ page_config \in PageConfigs
    /\ layout_config \in LayoutConfigs
    /\ available_width = calculate_dimensions(page_config).available_width
    /\ available_height = calculate_dimensions(page_config).available_height
    /\ calculated_row_height =
           calculate_dimensions(page_config).calculated_row_height
    /\ last_call = NoCall
    /\ proc = "none"
    /\ pc = "idle"
    /\ week = 0
    /\ current_month = 0
    /\ month_week_count = 0
    /\ month_lines = empty_month_lines
    /\ marks = <<>>
    /\ quarter_num = 0
    /\ month_num = 0
    /\ year_arg = Given(MaxYear)
    /\ clock_year = MaxYear
    /\ twin_clock_year = MaxYear
    /\ year = MaxYear
    /\ twin_year = MaxYear
    /\ twin_marks = <<>>
    /\ row_index = 0
    /\ main_pc = "none"
    /\ args_output = None
    /\ config_file = None
    /\ raised_exc = "none"
    /\ events = <<>>
    /\ stdout = <<>>
    /\ stderr = <<>>
    /\ exit_code = None
    /\ canvas = NewCanvas
    /\ gen_pc = "none"

----------------------------------------------------------------------------
(* Method calls on the constructed LayoutManager *)

\* the record kept of a call: what was called, with what, and its outcome
CallRecord(fn, args, outcome) ==
    [fn |-> fn, args |-> args,
     raised |-> outcome.raised, value |-> outcome.value]

Call_get_row_height ==
    /\ last_call' = CallRecord("get_row_height", <<>>,
                               Returned(get_row_height))
    /\ UNCHANGED <<layoutVars, scanVars, gridVars, weeklyVars, mainVars,
                   renderVars>>

Call_get_header_height ==
    /\ last_call' = CallRecord("get_header_height", <<>>,
                               Returned(get_header_height))
    /\ UNCHANGED <<layoutVars, scanVars, gridVars, weeklyVars, mainVars,
                   renderVars>>

Call_get_week_y_position ==
    /\ \E w \in WeekArgs :
           last_call' = CallRecord("get_week_y_position", <<w>>,
                                   Returned(get_week_y_position(w)))
    /\ UNCHANGED <<layoutVars, scanVars, gridVars, weeklyVars, mainVars,
                   renderVars>>

Call_get_quarter_for_week ==
    /\ \E w \in WeekArgs :
           last_call' = CallRecord("get_quarter_for_week", <<w>>,
                                   Returned(get_quarter_for_week(w)))
    /\ UNCHANGED <<layoutVars, scanVars, gridVars, weeklyVars, mainVars,
                   renderVars>>

Call_get_month_for_week ==
    /\ \E w \in WeekArgs :
           last_call' = CallRecord("get_month_for_week", <<w>>,
                                   Returned(get_month_for_week(w)))
    /\ UNCHANGED <<layoutVars, scanVars, gridVars, weeklyVars, mainVars,
                   renderVars>>

Call_is_catch_up_week ==
    /\ \E w \in WeekArgs :
           last_call' = CallRecord("is_catch_up_week", <<w>>,
                                   Returned(is_catch_up_week(w)))
    /\ UNCHANGED <<layoutVars, scanVars, gridVars, weeklyVars, mainVars,
                   renderVars>>

Call_get_month_abbreviation ==
    /\ \E m \in MonthArgs :
           last_call' = CallRecord("get_month_abbreviation", <<m>>,
                                   get_month_abbreviation(m))
    /\ UNCHANGED <<layoutVars, scanVars, gridVars, weeklyVars, mainVars,
                   renderVars>>

Call_get_column_x_positions ==
    /\ last_call' = CallRecord("get_column_x_positions", <<>>,
                               Returned(get_column_x_positions))
    /\ UNCHANGED <<layoutVars, scanVars, gridVars, weeklyVars, mainVars,
                   renderVars>>

Call_get_column_widths ==
    /\ last_call' = CallRecord("get_column_widths", <<>>,
                               Returned(get_column_widths))
    /\ UNCHANGED <<layoutVars, scanVars, gridVars, weeklyVars, mainVars,
                   renderVars>>

Next ==
    \/ Call_get_column_x_positions
    \/ Call_get_column_widths
    \/ Call_get_row_height
    \/ Call_get_header_height
    \/ Call_get_week_y_position
    \/ Call_get_quarter_for_week
    \/ Call_get_month_for_week
    \/ Call_is_catch_up_week
    \/ Call_get_month_abbreviation

Spec == Init /\ [][Next]_vars

----------------------------------------------------------------------------
(* The column getters on LayoutManagers constructed from any of the column  *)
(* layouts, on a page with one-inch margins                                 *)

InitColumns ==
    /\ page_config \in {p \in PageConfigs : /\ p.top_margin = inch
                                            /\ p.bottom_margin = inch}
    /\ layout_config \in ColumnLayoutConfigs
    /\ available_width = calculate_dimensions(page_config).available_width
    /\ available_height = calculate_dimensions(page_config).available_height
    /\ calculated_row_height =
           calculate_dimensions(page_config).calculated_row_height
    /\ last_call = NoCall
    /\ proc = "none"
    /\ pc = "idle"
    /\ week = 0
    /\ current_month = 0
    /\ month_week_count = 0
    /\ month_lines = empty_month_lines
    /\ marks = <<>>
    /\ quarter_num = 0
    /\ month_num = 0
    /\ year_arg = Given(MaxYear)
    /\ clock_year = MaxYear
    /\ twin_clock_year = MaxYear
    /\ year = MaxYear
    /\ twin_year = MaxYear
    /\ twin_marks = <<>>
    /\ row_index = 0
    /\ main_pc = "none"
    /\ args_output = None
    /\ config_file = None
    /\ raised_exc = "none"
    /\ events = <<>>
    /\ stdout = <<>>
    /\ stderr = <<>>
    /\ exit_code = None
    /\ canvas = NewCanvas
    /\ gen_pc = "none"

NextColumns ==
    \/ Call_get_column_x_positions
    \/ Call_get_column_widths

SpecColumns == InitColumns /\ [][NextColumns]_vars

----------------------------------------------------------------------------
(* The month_lines scan of draw_grid and of draw_monthly_column (the same   *)
(* code in both), one action per pass through the loop body.  week holds    *)
(* the value the for loop takes next from range(1, WEEKS_IN_YEAR + 1).      *)

ScanProcs == {"draw_grid", "draw_monthly_column"}

ScanStart ==
    /\ pc = "idle"
    /\ \E p \in ScanProcs : proc' = p
    /\ pc' = "scan"
    /\ month_lines' = empty_month_lines
    /\ current_month' = 1
    /\ month_week_count' = 0
    /\ week' = 1
    /\ UNCHANGED <<layoutVars, last_call, gridVars, weeklyVars, mainVars,
                   renderVars>>

\* if self.layout.is_catch_up_week(week): continue
ScanSkip ==
    /\ pc = "scan"
    /\ week <= WEEKS_IN_YEAR
    /\ is_catch_up_week(week)
    /\ week' = week + 1
    /\ UNCHANGED <<layoutVars, last_call, proc, pc, current_month,
                   month_week_count, month_lines, gridVars, weeklyVars,
                   mainVars, renderVars>>

\* count the week, open the next month after WEEKS_PER_MONTH weeks, append;
\* month_lines[current_month] of a month that is no key raises KeyError
ScanAssign ==
    /\ pc = "scan"
    /\ week <= WEEKS_IN_YEAR
    /\ ~is_catch_up_week(week)
    /\ LET count == month_week_count + 1
           advance == count > WEEKS_PER_MONTH
           month == IF advance THEN current_month + 1 ELSE current_month
       IN  /\ month_week_count' = IF advance THEN 1 ELSE count
           /\ current_month' = month
           /\ IF month \in DOMAIN month_lines
              THEN /\ month_lines' =
                        [month_lines EXCEPT ![month] = Append(@, week)]
                   /\ week' = week + 1
                   /\ pc' = pc
              ELSE /\ pc' = "KeyError"
                   /\ UNCHANGED <<month_lines, week>>
    /\ UNCHANGED <<layoutVars, last_call, proc, gridVars, weeklyVars,
                   mainVars, renderVars>>

\* range exhausted: the loop is left with month_lines complete, and the
\* loop over range(1, MONTHS_IN_YEAR + 1) that follows it is entered
ScanDone ==
    /\ pc = "scan"
    /\ week > WEEKS_IN_YEAR
    /\ pc' = "done"
    /\ month_num' = 1
    /\ UNCHANGED <<layoutVars, last_call, proc, week, current_month,
                   month_week_count, month_lines, marks, quarter_num,
                   weeklyVars, mainVars, renderVars>>

NextScan ==
    \/ ScanStart
    \/ ScanSkip
    \/ ScanAssign
    \/ ScanDone

SpecScan == Init /\ [][NextScan]_vars

----------------------------------------------------------------------------
(* draw_grid, one action per pass through each of its loops.  A mark is     *)
(* what the canvas receives: a filled rectangle (c.rect with fill=1,        *)
(* stroke=0), an outlined rectangle (DrawingHelper.draw_rectangle) or a     *)
(* line (DrawingHelper.draw_line).  x, y, w, h are the arguments of rect;   *)
(* for a line x, y is its start and w, h the difference to its end.         *)
(* stroke is the line width in hundredths of a point, 0 for no stroke.      *)

\* dict.get(key, default) of Python
PyGet(dict, key, default) == IF key \in DOMAIN dict THEN dict[key] ELSE default

\* the fixture layout, without and with the optional show_row_stripes key
GridLayoutConfigs ==
    { [quarterly_column_width |-> 25, monthly_column_width |-> 25,
       weekly_column_width |-> 90, checkbox_size |-> 3],
      [quarterly_column_width |-> 25, monthly_column_width |-> 25,
       weekly_column_width |-> 90, checkbox_size |-> 3,
       show_row_stripes |-> TRUE] }

Mark(by, kind, x, y, w, h, stroke, color) ==
    [by |-> by, kind |-> kind, x |-> x, y |-> y, w |-> w, h |-> h,
     stroke |-> stroke, color |-> color]

\* the stripes of one week: the monthly column of even months, the weekly
\* column of even weeks
row_stripes(wk) ==
    LET col_positions == get_column_x_positions
        col_widths == get_column_widths
        row_height == get_row_height
        y == get_week_y_position(wk)
        month == get_month_for_week(wk)
        month_stripe ==
            IF month > 0 /\ month % 2 = 0
            THEN <<Mark("row_stripe", "fill", col_positions.monthly,
                        y - row_height, col_widths.monthly, row_height,
                        0, "row_stripe")>>
            ELSE <<>>
        week_stripe ==
            IF wk % 2 = 0
            THEN <<Mark("row_stripe", "fill", col_positions.weekly,
                        y - row_height, col_widths.weekly, row_height,
                        0, "row_stripe")>>
            ELSE <<>>
    IN  month_stripe \o week_stripe

\* the line at the bottom of one week row
weekly_line(wk) ==
    LET col_positions == get_column_x_positions
        col_widths == get_column_widths
        row_height == get_row_height
        weekly_line_weight == PyGet(layout_config, "weekly_line_weight", 50)
        y == get_week_y_position(wk)
        line_y == y - row_height
        line_start == col_positions.weekly + inch \div 10 + inch \div 8
                          + inch \div 10
        line_end == col_positions.checkbox + col_widths.checkbox
                        - inch \div 20 - inch \div 8 + inch \div 16
                        - inch \div 8
    IN  Mark("weekly_line", "line", line_start, line_y,
             line_end - line_start, line_y - line_y,
             weekly_line_weight, "text")

quarter_box_long(q) ==
    LET col_positions == get_column_x_positions
        col_widths == get_column_widths
        row_height == get_row_height
        start_week == (q - 1) * WEEKS_PER_QUARTER + 1
        end_week == start_week + WEEKS_PER_QUARTER
        y_top == get_week_y_position(start_week)
        y_bottom == get_week_y_position(end_week) - row_height
        x_left == col_positions.quarterly
        x_right == col_positions.checkbox + col_widths.checkbox
    IN  Mark("quarter_box", "rect", x_left, y_bottom, x_right - x_left,
             y_top - y_bottom, 100, "grid_line")

\* the outline of one quarter
quarter_box(q) ==
    LET col_positions == get_column_x_positions
        col_widths == get_column_widths
        row_height == get_row_height
        start_week == (q - 1) * WEEKS_PER_QUARTER + 1
        end_week == start_week + WEEKS_PER_QUARTER - 1
        y_top == get_week_y_position(start_week)
        y_bottom == get_week_y_position(end_week) - row_height
        x_left == col_positions.quarterly
        x_right == col_positions.checkbox + col_widths.checkbox
    IN  Mark("quarter_box", "rect", x_left, y_bottom, x_right - x_left,
             y_top - y_bottom, 100, "grid_line")

month_box_short(weeks) ==
    LET col_positions == get_column_x_positions
        col_widths == get_column_widths
        first_week == weeks[1]
        last_week == weeks[Len(weeks)]
        y_top == get_week_y_position(first_week)
        y_bottom == get_week_y_position(last_week)
        x_left == col_positions.monthly
        x_right == col_positions.checkbox + col_widths.checkbox
    IN  Mark("month_box", "rect", x_left, y_bottom, x_right - x_left,
             y_top - y_bottom, 75, "grid_line")

\* the outline of one month, from its (non-empty) list of weeks
month_box(weeks) ==
    LET col_positions == get_column_x_positions
        col_widths == get_column_widths
        row_height == get_row_height
        first_week == weeks[1]
        last_week == weeks[Len(weeks)]
        y_top == get_week_y_position(first_week)
        y_bottom == get_week_y_position(last_week) - row_height
        x_left == col_positions.monthly
        x_right == col_positions.checkbox + col_widths.checkbox
    IN  Mark("month_box", "rect", x_left, y_bottom, x_right - x_left,
             y_top - y_bottom, 75, "grid_line")

InitGrid ==
    /\ page_config \in PageConfigs
    /\ layout_config \in GridLayoutConfigs
    /\ available_width = calculate_dimensions(page_config).available_width
    /\ available_height = calculate_dimensions(page_config).available_height
    /\ calculated_row_height =
           calculate_dimensions(page_config).calculated_row_height
    /\ last_call = NoCall
    /\ proc = "none"
    /\ pc = "idle"
    /\ week = 0
    /\ current_month = 0
    /\ month_week_count = 0
    /\ month_lines = empty_month_lines
    /\ marks = <<>>
    /\ quarter_num = 0
    /\ month_num = 0
    /\ year_arg = Given(MaxYear)
    /\ clock_year = MaxYear
    /\ twin_clock_year = MaxYear
    /\ year = MaxYear
    /\ twin_year = MaxYear
    /\ twin_marks = <<>>
    /\ row_index = 0
    /\ main_pc = "none"
    /\ args_output = None
    /\ config_file = None
    /\ raised_exc = "none"
    /\ events = <<>>
    /\ stdout = <<>>
    /\ stderr = <<>>
    /\ exit_code = None
    /\ canvas = NewCanvas
    /\ gen_pc = "none"

\* draw_grid is entered; the stripe loop runs only if show_row_stripes
GridStart ==
    /\ pc = "idle"
    /\ proc' = "draw_grid"
    /\ pc' = IF PyGet(layout_config, "show_row_stripes", FALSE)
             THEN "stripes" ELSE "weekly_lines"
    /\ week' = 1
    /\ UNCHANGED <<layoutVars, last_call, current_month, month_week_count,
                   month_lines, gridVars, weeklyVars, mainVars, renderVars>>

GridStripeRow ==
    /\ pc = "stripes"
    /\ week <= WEEKS_IN_YEAR
    /\ marks' = marks \o row_stripes(week)
    /\ week' = week + 1
    /\ UNCHANGED <<layoutVars, last_call, proc, pc, current_month,
                   month_week_count, month_lines, quarter_num, month_num,
                   weeklyVars, mainVars, renderVars>>

GridStripesDone ==
    /\ pc = "stripes"
    /\ week > WEEKS_IN_YEAR
    /\ pc' = "weekly_lines"
    /\ week' = 1
    /\ UNCHANGED <<layoutVars, last_call, proc, current_month,
                   month_week_count, month_lines, gridVars, weeklyVars,
                   mainVars, renderVars>>

GridWeeklyLine ==
    /\ pc = "weekly_lines"
    /\ week <= WEEKS_IN_YEAR
    /\ marks' = Append(marks, weekly_line(week))
    /\ week' = week + 1
    /\ UNCHANGED <<layoutVars, last_call, proc, pc, current_month,
                   month_week_count, month_lines, quarter_num, month_num,
                   weeklyVars, mainVars, renderVars>>

GridWeeklyLinesDone ==
    /\ pc = "weekly_lines"
    /\ week > WEEKS_IN_YEAR
    /\ pc' = "quarters"
    /\ quarter_num' = 1
    /\ UNCHANGED <<layoutVars, last_call, proc, week, current_month,
                   month_week_count, month_lines, marks, month_num,
                   weeklyVars, mainVars, renderVars>>

GridQuarterBox ==
    /\ pc = "quarters"
    /\ quarter_num <= QUARTERS_IN_YEAR
    /\ marks' = Append(marks, quarter_box(quarter_num))
    /\ quarter_num' = quarter_num + 1
    /\ UNCHANGED <<layoutVars, last_call, scanVars, month_num, weeklyVars,
                   mainVars, renderVars>>

\* the quarter loop is left and the month_lines scan is set up
GridQuartersDone ==
    /\ pc = "quarters"
    /\ quarter_num > QUARTERS_IN_YEAR
    /\ pc' = "scan"
    /\ month_lines' = empty_month_lines
    /\ current_month' = 1
    /\ month_week_count' = 0
    /\ week' = 1
    /\ UNCHANGED <<layoutVars, last_call, proc, gridVars, weeklyVars,
                   mainVars, renderVars>>

\* one month of the box loop; a month without weeks is skipped
GridMonthBox ==
    /\ pc = "done"
    /\ proc = "draw_grid"
    /\ month_num <= MONTHS_IN_YEAR
    /\ marks' = IF month_lines[month_num] = <<>> THEN marks
                ELSE Append(marks, month_box(month_lines[month_num]))
    /\ month_num' = month_num + 1
    /\ UNCHANGED <<layoutVars, last_call, scanVars, quarter_num, weeklyVars,
                   mainVars, renderVars>>

GridReturn ==
    /\ pc = "done"
    /\ proc = "draw_grid"
    /\ month_num > MONTHS_IN_YEAR
    /\ pc' = "returned"
    /\ UNCHANGED <<layoutVars, last_call, proc, week, current_month,
                   month_week_count, month_lines, gridVars, weeklyVars,
                   mainVars, renderVars>>

NextGrid ==
    \/ GridStart
    \/ GridStripeRow
    \/ GridStripesDone
    \/ GridWeeklyLine
    \/ GridWeeklyLinesDone
    \/ GridQuarterBox
    \/ GridQuartersDone
    \/ ScanSkip
    \/ ScanAssign
    \/ ScanDone
    \/ GridMonthBox
    \/ GridReturn

SpecGrid == InitGrid /\ [][NextGrid]_vars

----------------------------------------------------------------------------
(* GoalTrackerPDF.__init__ (the year) and draw_weekly_column, one action    *)
(* per row.  A text mark holds the string drawn and the row it is drawn     *)
(* in; where in the row it lands depends on the font metrics of the canvas  *)
(* (stringWidth), which the model does not hold.                            *)

\* self.year = year if year is not None else datetime.now().year
pdf_year_of_clock(arg, now) == now

pdf_year(arg, now) == IF arg.given THEN arg.value ELSE now

TextMark(by, text, row, color) ==
    [by |-> by, kind |-> "text", text |-> text,
     y |-> get_week_y_position(row), color |-> color]

day_range_unshifted(yr, row) ==
    LET jan4 == ymd2ord(yr, 1, 4)
        days_since_monday == weekday(jan4)
        iso_week1_monday == jan4 - days_since_monday
        iso_week_num == 1 + row - 1
        week_monday == iso_week1_monday + (iso_week_num - 1) * 7
        week_friday == week_monday + 4
    IN  PyStr(ord2ymd(week_monday).day) \o "-"
            \o PyStr(ord2ymd(week_friday).day)

\* the day range labelled on a row of the year yr
day_range(yr, row) ==
    LET jan4 == ymd2ord(yr, 1, 4)
        days_since_monday == weekday(jan4)
        iso_week1_monday == jan4 - days_since_monday
        has_iso_53 == isocalendar(ymd2ord(yr, 12, 28))[2] = 53
        start_iso_week == IF has_iso_53 THEN 2 ELSE 1
        iso_week_num == start_iso_week + row - 1
        week_monday == iso_week1_monday + (iso_week_num - 1) * 7
        week_friday == week_monday + 4
    IN  PyStr(ord2ymd(week_monday).day) \o "-"
            \o PyStr(ord2ymd(week_friday).day)

\* the message drawn on a catch-up row
catch_up_text(row) ==
    LET quarter == get_quarter_for_week(row)
    IN  IF quarter = 4 THEN "Close out Q4. Set next year's goals."
        ELSE IF quarter = 1 THEN "Close out Q1. Set Q2 goals."
        ELSE "Close out Q" \o PyStr(quarter) \o ". Set Q"
                 \o PyStr(quarter + 1) \o " goals."

weekly_row_one_early(yr, row) ==
    <<TextMark("week_label", day_range(yr, row - 1), row, "week_number")>>
    \o (IF is_catch_up_week(row)
        THEN <<TextMark("catch_up", catch_up_text(row), row, "week_number")>>
        ELSE <<>>)

\* the text marks of one row: the day range, then the catch-up message
weekly_row(yr, row) ==
    <<TextMark("week_label", day_range(yr, row), row, "week_number")>>
    \o (IF is_catch_up_week(row)
        THEN <<TextMark("catch_up", catch_up_text(row), row, "week_number")>>
        ELSE <<>>)

\* two GoalTrackerPDF instances built from the same configuration and the
\* same year argument, each on its own day
InitWeekly ==
    /\ page_config \in {p \in PageConfigs : /\ p.top_margin = inch
                                            /\ p.bottom_margin = inch}
    /\ layout_config \in LayoutConfigs
    /\ available_width = calculate_dimensions(page_config).available_width
    /\ available_height = calculate_dimensions(page_config).available_height
    /\ calculated_row_height =
           calculate_dimensions(page_config).calculated_row_height
    /\ last_call = NoCall
    /\ proc = "none"
    /\ pc = "idle"
    /\ week = 0
    /\ current_month = 0
    /\ month_week_count = 0
    /\ month_lines = empty_month_lines
    /\ marks = <<>>
    /\ quarter_num = 0
    /\ month_num = 0
    /\ year_arg \in {None} \cup {Given(y) : y \in Years}
    /\ clock_year \in ClockYears
    /\ twin_clock_year \in ClockYears
    /\ year = pdf_year(year_arg, clock_year)
    /\ twin_year = pdf_year(year_arg, twin_clock_year)
    /\ twin_marks = <<>>
    /\ row_index = 0
    /\ main_pc = "none"
    /\ args_output = None
    /\ config_file = None
    /\ raised_exc = "none"
    /\ events = <<>>
    /\ stdout = <<>>
    /\ stderr = <<>>
    /\ exit_code = None
    /\ canvas = NewCanvas
    /\ gen_pc = "none"

WeeklyStart ==
    /\ pc = "idle"
    /\ proc' = "draw_weekly_column"
    /\ pc' = "rows"
    /\ row_index' = 1
    /\ UNCHANGED <<layoutVars, last_call, week, current_month,
                   month_week_count, month_lines, gridVars,
                   year_arg, clock_year, twin_clock_year, year, twin_year,
                   twin_marks, mainVars, renderVars>>

\* one row, drawn by each of the two instances on its own canvas
WeeklyRow ==
    /\ pc = "rows"
    /\ row_index <= WEEKS_IN_YEAR
    /\ marks' = marks \o weekly_row(year, row_index)
    /\ twin_marks' = twin_marks \o weekly_row(twin_year, row_index)
    /\ row_index' = row_index + 1
    /\ UNCHANGED <<layoutVars, last_call, scanVars, quarter_num, month_num,
                   year_arg, clock_year, twin_clock_year, year, twin_year,
                   mainVars, renderVars>>

WeeklyReturn ==
    /\ pc = "rows"
    /\ row_index > WEEKS_IN_YEAR
    /\ pc' = "returned"
    /\ UNCHANGED <<layoutVars, last_call, proc, week, current_month,
                   month_week_count, month_lines, gridVars, weeklyVars,
                   mainVars, renderVars>>

NextWeekly ==
    \/ WeeklyStart
    \/ WeeklyRow
    \/ WeeklyReturn

SpecWeekly == InitWeekly /\ [][NextWeekly]_vars

----------------------------------------------------------------------------
(* main(), one action per statement of its try block.  A printed line is    *)
(* the pair <<literal text of the f-string, value formatted into it>>.      *)
(* A configuration file is described by whether it exists, whether it is    *)
(* valid YAML, which top-level keys its mapping has, and whether its        *)
(* output section and its page, fonts and layout sections hold the keys     *)
(* the getters read; its margins and widths are those of the test fixture.  *)

required_keys_without_layout == <<"page", "fonts", "colors", "output">>

required_keys == <<"page", "fonts", "colors", "layout", "output">>

TopLevelKeys == {"page", "fonts", "colors", "layout", "output"}

ConfigFiles ==
    { [exists |-> e, yaml_ok |-> y, keys |-> k,
       output_complete |-> o, sections_complete |-> c] :
      e \in BOOLEAN, y \in BOOLEAN, k \in SUBSET TopLevelKeys,
      o \in BOOLEAN, c \in BOOLEAN }

Exception(type, message) == [type |-> type, message |-> message]

\* _validate_config from required key i on: the first missing key raises
RECURSIVE validate_config(_, _)
validate_config(file, i) ==
    IF i > Len(required_keys) THEN Returned("valid")
    ELSE IF required_keys[i] \notin file.keys
    THEN Raised(Exception("ValueError", "Missing required config key: "
                                            \o required_keys[i]))
    ELSE validate_config(file, i + 1)

\* GoalTrackerConfig(config_path)
GoalTrackerConfig(file) ==
    IF ~file.exists
    THEN Raised(Exception("FileNotFoundError",
                          "Configuration file not found: config.yaml"))
    ELSE IF ~file.yaml_ok
    THEN Raised(Exception("YAMLError", "while parsing"))
    ELSE validate_config(file, 1)

\* config.get_output_dir() / config.get_output_filename()
config_output_path(file) ==
    IF "output" \notin file.keys THEN Raised(Exception("KeyError", "'output'"))
    ELSE IF ~file.output_complete
    THEN Raised(Exception("KeyError", "'directory'"))
    ELSE Returned("output/goal_tracker_template.pdf")

\* the getters GoalTrackerPDF.__init__ calls before it builds the
\* LayoutManager: get_page_config, get_font_config, get_colors, get_layout
config_sections(file) ==
    IF "page" \notin file.keys THEN Raised(Exception("KeyError", "'page'"))
    ELSE IF ~file.sections_complete
    THEN Raised(Exception("KeyError", "'margins'"))
    ELSE IF "fonts" \notin file.keys
    THEN Raised(Exception("KeyError", "'fonts'"))
    ELSE IF "layout" \notin file.keys
    THEN Raised(Exception("KeyError", "'layout'"))
    ELSE Returned("sections")

error_line_uniform(exc) == <<"Error: ", exc.message>>

\* the line the except clauses of main() print to standard error
error_line(exc) ==
    IF exc.type = "FileNotFoundError" THEN <<"Error: ", exc.message>>
    ELSE IF exc.type = "YAMLError"
    THEN <<"Error parsing configuration file: ", exc.message>>
    ELSE <<"Error generating PDF: ", exc.message>>

has_iso_week_53_on_jan1(yr) == isocalendar(ymd2ord(yr, 1, 1))[2] = 53

\* datetime(year, 12, 28).isocalendar()[1] == 53
has_iso_week_53(yr) == isocalendar(ymd2ord(yr, 12, 28))[2] = 53

iso_note == <<"Note: For better alignment, starting at ISO week 2.", "">>

success_line(path) == <<"PDF generated successfully: ", path>>

\* year = args.year if args.year is not None else datetime.now().year
main_year == IF year_arg.given THEN year_arg.value ELSE clock_year

generate_events_grid_late ==
    <<"mkdir", "draw_header", "draw_quarterly_column", "draw_grid",
      "draw_monthly_column", "draw_weekly_column", "draw_checkbox_column",
      "save">>

\* what generate() does, in order
generate_events ==
    <<"mkdir", "draw_header", "draw_grid", "draw_quarterly_column",
      "draw_monthly_column", "draw_weekly_column", "draw_checkbox_column",
      "save">>

NotConstructed == [width |-> 0, height |-> 0, top_margin |-> 0,
                   bottom_margin |-> 0, left_margin |-> 0, right_margin |-> 0]

\* main() has parsed its arguments and enters the try block
InitMain ==
    /\ page_config = NotConstructed
    /\ layout_config = <<>>
    /\ available_width = 0
    /\ available_height = 0
    /\ calculated_row_height = 0
    /\ last_call = NoCall
    /\ proc = "none"
    /\ pc = "idle"
    /\ week = 0
    /\ current_month = 0
    /\ month_week_count = 0
    /\ month_lines = empty_month_lines
    /\ marks = <<>>
    /\ quarter_num = 0
    /\ month_num = 0
    /\ year_arg \in {None} \cup {Given(y) : y \in Years}
    /\ clock_year \in ClockYears
    /\ twin_clock_year = clock_year
    /\ year = 0
    /\ twin_year = 0
    /\ twin_marks = <<>>
    /\ row_index = 0
    /\ main_pc = "load_config"
    /\ args_output \in {None, Given("out.pdf")}
    /\ config_file = None
    /\ raised_exc = "none"
    /\ events = <<>>
    /\ stdout = <<>>
    /\ stderr = <<>>
    /\ exit_code = None
    /\ canvas = NewCanvas
    /\ gen_pc = "none"

\* the except clauses: print the error line and sys.exit(1)
Caught(exc) ==
    /\ raised_exc' = exc.type
    /\ stderr' = Append(stderr, error_line(exc))
    /\ exit_code' = Given(1)
    /\ main_pc' = "exit"

\* config = GoalTrackerConfig(args.config)
MainLoadConfig ==
    /\ main_pc = "load_config"
    /\ \E file \in ConfigFiles :
           /\ config_file' = Given(file)
           /\ IF GoalTrackerConfig(file).raised
              THEN /\ Caught(GoalTrackerConfig(file).value)
                   /\ UNCHANGED events
              ELSE /\ events' = Append(events, "GoalTrackerConfig")
                   /\ main_pc' = "output_path"
                   /\ UNCHANGED <<raised_exc, stderr, exit_code>>
    /\ UNCHANGED <<layoutVars, last_call, scanVars, gridVars, weeklyVars,
                   args_output, stdout, renderVars>>

\* output_path = args.output, or the directory and filename of the config
MainOutputPath ==
    /\ main_pc = "output_path"
    /\ IF ~args_output.given /\ config_output_path(config_file.value).raised
       THEN /\ Caught(config_output_path(config_file.value).value)
            /\ UNCHANGED events
       ELSE /\ events' = Append(events, "output_path")
            /\ main_pc' = "iso_note"
            /\ UNCHANGED <<raised_exc, stderr, exit_code>>
    /\ UNCHANGED <<layoutVars, last_call, scanVars, gridVars, weeklyVars,
                   args_output, config_file, stdout, renderVars>>

\* the note for a year whose December 28 lies in ISO week 53
MainIsoNote ==
    /\ main_pc = "iso_note"
    /\ IF has_iso_week_53(main_year)
       THEN /\ stdout' = Append(stdout, iso_note)
            /\ events' = Append(events, "iso_note")
       ELSE UNCHANGED <<stdout, events>>
    /\ main_pc' = "construct"
    /\ UNCHANGED <<layoutVars, last_call, scanVars, gridVars, weeklyVars,
                   args_output, config_file, raised_exc, stderr, exit_code,
                   renderVars>>

\* pdf_generator = GoalTrackerPDF(config, year=year)
MainConstruct ==
    /\ main_pc = "construct"
    /\ IF config_sections(config_file.value).raised
       THEN /\ Caught(config_sections(config_file.value).value)
            /\ UNCHANGED <<layoutVars, year, events>>
       ELSE /\ page_config' \in {p \in PageConfigs : /\ p.top_margin = inch
                                                     /\ p.bottom_margin = inch}
            /\ layout_config' \in LayoutConfigs
            /\ available_width' =
                   calculate_dimensions(page_config').available_width
            /\ available_height' =
                   calculate_dimensions(page_config').available_height
            /\ calculated_row_height' =
                   calculate_dimensions(page_config').calculated_row_height
            /\ year' = pdf_year(Given(main_year), clock_year)
            /\ events' = Append(events, "LayoutManager")
            /\ main_pc' = "generate"
            /\ UNCHANGED <<raised_exc, stderr, exit_code>>
    /\ UNCHANGED <<last_call, scanVars, gridVars, year_arg, clock_year,
                   twin_clock_year, twin_year, twin_marks, row_index,
                   args_output, config_file, stdout, renderVars>>

\* pdf_generator.generate(str(output_path)): it runs to the end, or the
\* file system refuses the directory or the file
MainGenerate ==
    /\ main_pc = "generate"
    /\ \E outcome \in {"ok", "mkdir_fails", "save_fails"} :
           IF outcome = "mkdir_fails"
           THEN /\ Caught(Exception("OSError", "mkdir"))
                /\ UNCHANGED events
           ELSE IF outcome = "save_fails"
           THEN /\ Caught(Exception("OSError", "save"))
                /\ events' = events \o SubSeq(generate_events, 1, 7)
           ELSE /\ events' = events \o generate_events
                /\ main_pc' = "success"
                /\ UNCHANGED <<raised_exc, stderr, exit_code>>
    /\ UNCHANGED <<layoutVars, last_call, scanVars, gridVars, weeklyVars,
                   args_output, config_file, stdout, renderVars>>

\* the confirmation line; main() returns and the process exits with 0
MainSuccess ==
    /\ main_pc = "success"
    /\ stdout' = Append(stdout,
                        success_line(IF args_output.given
                                     THEN args_output.value
                                     ELSE config_output_path(
                                              config_file.value).value))
    /\ events' = Append(events, "success")
    /\ exit_code' = Given(0)
    /\ main_pc' = "exit"
    /\ UNCHANGED <<layoutVars, last_call, scanVars, gridVars, weeklyVars,
                   args_output, config_file, raised_exc, stderr, renderVars>>

NextMain ==
    \/ MainLoadConfig
    \/ MainOutputPath
    \/ MainIsoNote
    \/ MainConstruct
    \/ MainGenerate
    \/ MainSuccess

SpecMain == InitMain /\ [][NextMain]_vars

----------------------------------------------------------------------------
(* DrawingHelper.  The Canvas methods it calls are modelled by what they    *)
(* do to the graphics state; line, rect, drawString and drawRightString     *)
(* append what they draw, with the state they draw it in, to canvas.ops.    *)

MaxDrawCalls == 3

Colors == {Black, <<255, 0, 0>>, <<200, 200, 200>>}

\* dash: None (the default), the empty list, or a pattern
Dashes == {None, Given(<<>>), Given(<<2, 2>>)}

Aligns == {"left", "right", "center"}

setLineWidth(c, w) == [c EXCEPT !.line_width = w]

setStrokeColorRGB(c, rgb) == [c EXCEPT !.stroke = rgb]

setFillColorRGB(c, rgb) == [c EXCEPT !.fill = rgb]

setDash(c, pattern) == [c EXCEPT !.dash = pattern]

setFont(c, name, size) == [c EXCEPT !.font = <<name, size>>]

Emit(c, op, args) ==
    [c EXCEPT !.ops = Append(@, [op |-> op, args |-> args,
                                 stroke |-> c.stroke, fill |-> c.fill,
                                 dash |-> c.dash,
                                 line_width |-> c.line_width])]

\* `if dash:` is true of a non-empty list only
truthy(dash) == dash.given /\ dash.value # <<>>

draw_line_keeps_dash(c, x1, y1, x2, y2, stroke_width, color, dash) ==
    LET c1 == setLineWidth(c, stroke_width)
        c2 == setStrokeColorRGB(c1, color)
        c3 == IF truthy(dash) THEN setDash(c2, dash.value) ELSE c2
        c4 == Emit(c3, "line", <<x1, y1, x2, y2>>)
    IN  setStrokeColorRGB(c4, Black)

draw_line(c, x1, y1, x2, y2, stroke_width, color, dash) ==
    LET c1 == setLineWidth(c, stroke_width)
        c2 == setStrokeColorRGB(c1, color)
        c3 == IF truthy(dash) THEN setDash(c2, dash.value) ELSE c2
        c4 == Emit(c3, "line", <<x1, y1, x2, y2>>)
        c5 == IF truthy(dash) THEN setDash(c4, <<>>) ELSE c4
    IN  setStrokeColorRGB(c5, Black)

draw_rectangle(c, x, y, width, height, stroke_width, color) ==
    LET c1 == setLineWidth(c, stroke_width)
        c2 == setStrokeColorRGB(c1, color)
        c3 == Emit(c2, "rect", <<x, y, width, height>>)
    IN  setStrokeColorRGB(c3, Black)

draw_text(c, text, x, y, font, size, color, align) ==
    LET c1 == setFont(c, font, size)
        c2 == setFillColorRGB(c1, color)
        c3 == IF align = "right"
              THEN Emit(c2, "drawRightString", <<x, y, text>>)
              ELSE Emit(c2, "drawString", <<x, y, text>>)
    IN  setFillColorRGB(c3, Black)

\* a new canvas, before any DrawingHelper call
InitDraw ==
    /\ page_config \in {p \in PageConfigs : /\ p.top_margin = inch
                                            /\ p.bottom_margin = inch}
    /\ layout_config \in LayoutConfigs
    /\ available_width = calculate_dimensions(page_config).available_width
    /\ available_height = calculate_dimensions(page_config).available_height
    /\ calculated_row_height =
           calculate_dimensions(page_config).calculated_row_height
    /\ last_call = NoCall
    /\ proc = "none"
    /\ pc = "idle"
    /\ week = 0
    /\ current_month = 0
    /\ month_week_count = 0
    /\ month_lines = empty_month_lines
    /\ marks = <<>>
    /\ quarter_num = 0
    /\ month_num = 0
    /\ year_arg = Given(MaxYear)
    /\ clock_year = MaxYear
    /\ twin_clock_year = MaxYear
    /\ year = MaxYear
    /\ twin_year = MaxYear
    /\ twin_marks = <<>>
    /\ row_index = 0
    /\ main_pc = "none"
    /\ args_output = None
    /\ config_file = None
    /\ raised_exc = "none"
    /\ events = <<>>
    /\ stdout = <<>>
    /\ stderr = <<>>
    /\ exit_code = None
    /\ canvas = NewCanvas
    /\ gen_pc = "none"

Call_draw_line ==
    /\ Len(canvas.ops) < MaxDrawCalls
    /\ \E color \in Colors, dash \in Dashes :
           /\ canvas' = draw_line(canvas, 0, 0, 100, 100, 50, color, dash)
           /\ last_call' = CallRecord("draw_line", <<color, dash>>,
                                      Returned(0))
    /\ UNCHANGED <<layoutVars, scanVars, gridVars, weeklyVars, mainVars,
                   gen_pc>>

Call_draw_rectangle ==
    /\ Len(canvas.ops) < MaxDrawCalls
    /\ \E color \in Colors :
           /\ canvas' = draw_rectangle(canvas, 0, 0, 50, 50, 100, color)
           /\ last_call' = CallRecord("draw_rectangle", <<color>>,
                                      Returned(0))
    /\ UNCHANGED <<layoutVars, scanVars, gridVars, weeklyVars, mainVars,
                   gen_pc>>

Call_draw_text ==
    /\ Len(canvas.ops) < MaxDrawCalls
    /\ \E color \in Colors, align \in Aligns :
           /\ canvas' = draw_text(canvas, "Test", 0, 0, "Helvetica", 10,
                                  color, align)
           /\ last_call' = CallRecord("draw_text", <<color, align>>,
                                      Returned(0))
    /\ UNCHANGED <<layoutVars, scanVars, gridVars, weeklyVars, mainVars,
                   gen_pc>>

NextDraw ==
    \/ Call_draw_line
    \/ Call_draw_rectangle
    \/ Call_draw_text

SpecDraw == InitDraw /\ [][NextDraw]_vars

----------------------------------------------------------------------------
(* GoalTrackerPDF.generate: the steps of generate_events one after the      *)
(* other, each drawing section running its own loop to its return.  The     *)
(* x positions of the header hang on 0.4 of the grid width, which is no     *)
(* whole number of units: header marks hold their y only, like text marks.  *)

\* the step of generate() that follows step s
step_after(s) ==
    LET i == CHOOSE k \in 1..Len(generate_events) : generate_events[k] = s
    IN  IF i < Len(generate_events) THEN generate_events[i + 1]
        ELSE "returned"

HeaderMark(by, kind, text, y) ==
    [by |-> by, kind |-> kind, text |-> text, y |-> y, color |-> "text"]

\* draw_header: the title, the goal label and the two goal lines
header_marks ==
    LET header_top_y == page_config.height - page_config.top_margin
        title_y == header_top_y - inch \div 10
        goal_label_y == title_y
        line_spacing == inch \div 20
        line1_y == goal_label_y
        line2_y == title_y - (15 * inch) \div 100 - line_spacing
    IN  <<HeaderMark("title", "text", "Goal Tracker for " \o PyStr(year),
                     title_y),
          HeaderMark("goal_label", "text", "Goal:", goal_label_y),
          HeaderMark("goal_line", "line", "", line1_y),
          HeaderMark("goal_line", "line", "", line2_y)>>

quarters == <<"Q1", "Q2", "Q3", "Q4">>

lines_per_quarter == 6

\* one quarter of draw_quarterly_column: its label, then its goal lines,
\* the first of the lines_per_quarter skipped
quarterly_quarter(q) ==
    LET col_x == get_column_x_positions.quarterly
        col_width_q == get_column_widths.quarterly
        row_height == get_row_height
        start_week == (q - 1) * WEEKS_PER_QUARTER + 1
        y_start == get_week_y_position(start_week)
        line_x_start == col_x + inch \div 20
        line_x_end == col_x + col_width_q - inch \div 20
    IN  <<TextMark("quarter_label", quarters[q], start_week, "text")>>
        \o [line_num \in 1..(lines_per_quarter - 1) |->
               Mark("quarter_line", "line", line_x_start,
                    y_start - row_height - line_num * row_height,
                    line_x_end - line_x_start, 0, 50, "text")]

\* one month of draw_monthly_column: its label, then a line per week
monthly_month(m, weeks) ==
    LET col_x == get_column_x_positions.monthly
        col_width_m == get_column_widths.monthly
        row_height == get_row_height
        first_week == weeks[1]
        y_start == get_week_y_position(first_week)
        line_x_start == col_x + inch \div 20
        line_x_end == col_x + col_width_m - inch \div 20
    IN  <<TextMark("month_label", get_month_abbreviation(m).value,
                   first_week, "text")>>
        \o [k \in 1..Len(weeks) |->
               Mark("month_line", "line", line_x_start,
                    y_start - row_height - (k - 1) * row_height,
                    line_x_end - line_x_start, 0, 50, "text")]

\* the square of one row of draw_checkbox_column
checkbox(wk) ==
    LET col_x == get_column_x_positions.checkbox
        checkbox_size == get_column_widths.checkbox
        row_height == get_row_height
        y == get_week_y_position(wk)
        box_x == col_x + (checkbox_size - col_width("checkbox_size")) \div 2
        box_y == y - row_height \div 2 - col_width("checkbox_size") \div 2
    IN  Mark("checkbox", "rect", box_x, box_y, col_width("checkbox_size"),
             col_width("checkbox_size"), 100, "text")

\* a GoalTrackerPDF has been constructed and generate() is entered
InitGenerate ==
    /\ page_config \in {p \in PageConfigs : /\ p.top_margin = inch
                                            /\ p.bottom_margin = inch}
    /\ layout_config \in GridLayoutConfigs
    /\ available_width = calculate_dimensions(page_config).available_width
    /\ available_height = calculate_dimensions(page_config).available_height
    /\ calculated_row_height =
           calculate_dimensions(page_config).calculated_row_height
    /\ last_call = NoCall
    /\ proc = "none"
    /\ pc = "idle"
    /\ week = 0
    /\ current_month = 0
    /\ month_week_count = 0
    /\ month_lines = empty_month_lines
    /\ marks = <<>>
    /\ quarter_num = 0
    /\ month_num = 0
    /\ year_arg = None
    /\ clock_year \in ClockYears
    /\ twin_clock_year = clock_year
    /\ year = pdf_year(year_arg, clock_year)
    /\ twin_year = pdf_year(year_arg, twin_clock_year)
    /\ twin_marks = <<>>
    /\ row_index = 0
    /\ main_pc = "none"
    /\ args_output = None
    /\ config_file = None
    /\ raised_exc = "none"
    /\ events = <<>>
    /\ stdout = <<>>
    /\ stderr = <<>>
    /\ exit_code = None
    /\ canvas = NewCanvas
    /\ gen_pc = generate_events[1]

\* output_path.parent.mkdir(parents=True, exist_ok=True), then the Canvas
GenMkdir ==
    /\ gen_pc = "mkdir"
    /\ events' = Append(events, "mkdir")
    /\ canvas' = NewCanvas
    /\ gen_pc' = step_after(gen_pc)
    /\ UNCHANGED <<layoutVars, last_call, scanVars, gridVars, weeklyVars,
                   main_pc, args_output, config_file, raised_exc, stdout,
                   stderr, exit_code>>

GenDrawHeader ==
    /\ gen_pc = "draw_header"
    /\ marks' = marks \o header_marks
    /\ events' = Append(events, "draw_header")
    /\ gen_pc' = step_after(gen_pc)
    /\ UNCHANGED <<layoutVars, last_call, scanVars, quarter_num, month_num,
                   weeklyVars, main_pc, args_output, config_file, raised_exc,
                   stdout, stderr, exit_code, canvas>>

GenDrawGrid ==
    /\ gen_pc = "draw_grid"
    /\ NextGrid

QuarterlyStart ==
    /\ gen_pc = "draw_quarterly_column"
    /\ pc = "idle"
    /\ proc' = "draw_quarterly_column"
    /\ pc' = "quarter_rows"
    /\ quarter_num' = 1
    /\ UNCHANGED <<layoutVars, last_call, week, current_month,
                   month_week_count, month_lines, marks, month_num,
                   weeklyVars, mainVars, renderVars>>

QuarterlyQuarter ==
    /\ pc = "quarter_rows"
    /\ quarter_num <= QUARTERS_IN_YEAR
    /\ marks' = marks \o quarterly_quarter(quarter_num)
    /\ quarter_num' = quarter_num + 1
    /\ UNCHANGED <<layoutVars, last_call, scanVars, month_num, weeklyVars,
                   mainVars, renderVars>>

QuarterlyReturn ==
    /\ pc = "quarter_rows"
    /\ quarter_num > QUARTERS_IN_YEAR
    /\ pc' = "returned"
    /\ UNCHANGED <<layoutVars, last_call, proc, week, current_month,
                   month_week_count, month_lines, gridVars, weeklyVars,
                   mainVars, renderVars>>

\* draw_monthly_column enters its month_lines scan
MonthlyStart ==
    /\ gen_pc = "draw_monthly_column"
    /\ ScanStart
    /\ proc' = "draw_monthly_column"

MonthlyScan ==
    /\ gen_pc = "draw_monthly_column"
    /\ (ScanSkip \/ ScanAssign \/ ScanDone)

\* one month of the label loop; a month without weeks is skipped
MonthlyMonth ==
    /\ pc = "done"
    /\ proc = "draw_monthly_column"
    /\ month_num <= MONTHS_IN_YEAR
    /\ marks' = IF month_lines[month_num] = <<>> THEN marks
                ELSE marks \o monthly_month(month_num,
                                            month_lines[month_num])
    /\ month_num' = month_num + 1
    /\ UNCHANGED <<layoutVars, last_call, scanVars, quarter_num, weeklyVars,
                   mainVars, renderVars>>

MonthlyReturn ==
    /\ pc = "done"
    /\ proc = "draw_monthly_column"
    /\ month_num > MONTHS_IN_YEAR
    /\ pc' = "returned"
    /\ UNCHANGED <<layoutVars, last_call, proc, week, current_month,
                   month_week_count, month_lines, gridVars, weeklyVars,
                   mainVars, renderVars>>

GenDrawWeekly ==
    /\ gen_pc = "draw_weekly_column"
    /\ NextWeekly

CheckboxStart ==
    /\ gen_pc = "draw_checkbox_column"
    /\ pc = "idle"
    /\ proc' = "draw_checkbox_column"
    /\ pc' = "boxes"
    /\ week' = 1
    /\ UNCHANGED <<layoutVars, last_call, current_month, month_week_count,
                   month_lines, gridVars, weeklyVars, mainVars, renderVars>>

CheckboxRow ==
    /\ pc = "boxes"
    /\ week <= WEEKS_IN_YEAR
    /\ marks' = Append(marks, checkbox(week))
    /\ week' = week + 1
    /\ UNCHANGED <<layoutVars, last_call, proc, pc, current_month,
                   month_week_count, month_lines, quarter_num, month_num,
                   weeklyVars, mainVars, renderVars>>

CheckboxReturn ==
    /\ pc = "boxes"
    /\ week > WEEKS_IN_YEAR
    /\ pc' = "returned"
    /\ UNCHANGED <<layoutVars, last_call, proc, week, current_month,
                   month_week_count, month_lines, gridVars, weeklyVars,
                   mainVars, renderVars>>

\* a drawing section has returned: generate() goes on to its next step
GenSectionReturned ==
    /\ gen_pc \in {"draw_grid", "draw_quarterly_column",
                   "draw_monthly_column", "draw_weekly_column",
                   "draw_checkbox_column"}
    /\ pc = "returned"
    /\ pc' = "idle"
    /\ events' = Append(events, gen_pc)
    /\ gen_pc' = step_after(gen_pc)
    /\ UNCHANGED <<layoutVars, last_call, proc, week, current_month,
                   month_week_count, month_lines, gridVars, weeklyVars,
                   main_pc, args_output, config_file, raised_exc, stdout,
                   stderr, exit_code, canvas>>

\* c.save()
GenSave ==
    /\ gen_pc = "save"
    /\ events' = Append(events, "save")
    /\ gen_pc' = step_after(gen_pc)
    /\ UNCHANGED <<layoutVars, last_call, scanVars, gridVars, weeklyVars,
                   main_pc, args_output, config_file, raised_exc, stdout,
                   stderr, exit_code, canvas>>

NextGenerate ==
    \/ GenMkdir
    \/ GenDrawHeader
    \/ GenDrawGrid
    \/ QuarterlyStart
    \/ QuarterlyQuarter
    \/ QuarterlyReturn
    \/ MonthlyStart
    \/ MonthlyScan
    \/ MonthlyMonth
    \/ MonthlyReturn
    \/ GenDrawWeekly
    \/ CheckboxStart
    \/ CheckboxRow
    \/ CheckboxReturn
    \/ GenSectionReturned
    \/ GenSave

SpecGenerate == InitGenerate /\ [][NextGenerate]_vars

----------------------------------------------------------------------------
(* Claims about the LayoutManager methods, checked under Spec *)

CalledWith(fn, w) == last_call.fn = fn /\ last_call.args = <<w>>

WeekOfCall == last_call.args[1]

\* C1: for every week w in 1..52 get_quarter_for_week(w) returns
\* floor((w-1)/13)+1; the quarter never decreases as w grows, and the
\* quarters 1..4 hold the weeks 1-13, 14-26, 27-39 and 40-52.
QuarterIsFloorFormula ==
    /\ (last_call.fn = "get_quarter_for_week" /\ WeekOfCall \in 1..52) =>
           /\ ~last_call.raised
           /\ last_call.value \in 1..4
           /\ 13 * (last_call.value - 1) <= WeekOfCall - 1
           /\ WeekOfCall - 1 < 13 * last_call.value
    /\ \A w \in 1..51 : get_quarter_for_week(w) <= get_quarter_for_week(w + 1)
    /\ \A q \in 1..4 :
           {w \in 1..52 : get_quarter_for_week(w) = q} =
               (13 * (q - 1) + 1)..(13 * q)

QuarterOfWeek40Returned ==
    CalledWith("get_quarter_for_week", 40) /\ last_call.value = 4

\* C2: get_quarter_for_week raises for every week number outside 1..52 and
\* never returns a quarter for it.
QuarterRejectsOutOfRangeWeek ==
    (last_call.fn = "get_quarter_for_week" /\ WeekOfCall \notin 1..52) =>
        last_call.raised

\* C3: for every week w in 1..52, is_catch_up_week(w) is true exactly for
\* 13, 26, 39 and 52, get_month_for_week(w) is -1 exactly for those four
\* weeks, and every other week gets a month in 1..12.
CatchUpWeeksExact ==
    /\ (last_call.fn = "is_catch_up_week" /\ WeekOfCall \in 1..52) =>
           (last_call.value = TRUE <=> WeekOfCall \in {13, 26, 39, 52})
    /\ (last_call.fn = "get_month_for_week" /\ WeekOfCall \in 1..52) =>
           /\ last_call.value = -1 <=> WeekOfCall \in {13, 26, 39, 52}
           /\ WeekOfCall \notin {13, 26, 39, 52} => last_call.value \in 1..12

MonthOfWeek51Returned ==
    CalledWith("get_month_for_week", 51) /\ last_call.value = 12

\* C6: get_month_abbreviation(m) returns Jan..Dec for m in 1..12 and the
\* empty string, without raising, for every other integer m.
ExpectedAbbreviation(m) ==
    CASE m = 1 -> "Jan" [] m = 2 -> "Feb" [] m = 3 -> "Mar"
      [] m = 4 -> "Apr" [] m = 5 -> "May" [] m = 6 -> "Jun"
      [] m = 7 -> "Jul" [] m = 8 -> "Aug" [] m = 9 -> "Sep"
      [] m = 10 -> "Oct" [] m = 11 -> "Nov" [] m = 12 -> "Dec"
      [] OTHER -> ""

AbbreviationLenient ==
    last_call.fn = "get_month_abbreviation" =>
        /\ ~last_call.raised
        /\ last_call.value = ExpectedAbbreviation(last_call.args[1])

AbbreviationOfMonth13Returned ==
    CalledWith("get_month_abbreviation", 13) /\ last_call.value = ""

\* C7: in every constructed LayoutManager get_week_y_position is strictly
\* decreasing: for all weeks 1 <= a < b <= 52 the position returned for b
\* is below the position of a.
RowYStrictlyDecreasing ==
    (last_call.fn = "get_week_y_position" /\ WeekOfCall \in 1..52) =>
        \A a \in 1..52 :
            a < WeekOfCall => last_call.value < get_week_y_position(a)

\* C8: for every week w in 1..52 get_week_y_position(w) is
\* height - top margin - header height - (w-1) * row height, so the bottom
\* of row w is the top of row w+1 and rows 1 and 52 are 51 row heights
\* apart.
RowYFormula ==
    /\ (last_call.fn = "get_week_y_position" /\ WeekOfCall \in 1..52) =>
           last_call.value =
               page_config.height - page_config.top_margin
                   - get_header_height - (WeekOfCall - 1) * get_row_height
    /\ get_week_y_position(1) =
           page_config.height - page_config.top_margin - get_header_height
    /\ \A w \in 1..51 :
           get_week_y_position(w) - get_row_height = get_week_y_position(w + 1)
    /\ get_week_y_position(1) - get_week_y_position(52) = 51 * get_row_height

RowYOfWeek52Returned ==
    /\ CalledWith("get_week_y_position", 52)
    /\ get_row_height > 0
    /\ last_call.value < get_week_y_position(1)

\* C9: get_row_height() is (available height - header height) / 52, with
\* available height = height - top margin - bottom margin
\* + min(0.1 inch, half the bottom margin) and the header height being the
\* one get_header_height() returns.
RowHeightUsesTheHeaderHeight ==
    last_call.fn = "get_row_height" =>
        /\ available_height =
               page_config.height - page_config.top_margin
                   - page_config.bottom_margin
                   + Min(inch \div 10, page_config.bottom_margin \div 2)
        /\ WEEKS_IN_YEAR * last_call.value =
               available_height - get_header_height

\* C10: in every constructed LayoutManager the header height plus 52 row
\* heights is at most the available height: the header and the 52 rows, as
\* get_week_y_position places them, lie between the top margin line and
\* the lower end of the available height.
GridFitsAvailableHeight ==
    /\ get_header_height + WEEKS_IN_YEAR * get_row_height <= available_height
    /\ get_week_y_position(1) + get_header_height =
           page_config.height - page_config.top_margin
    /\ get_week_y_position(52) - get_row_height >=
           page_config.height - page_config.top_margin - available_height

HeaderHeightReturnedWithRows ==
    /\ last_call.fn = "get_header_height"
    /\ get_row_height > 0
    /\ page_config.bottom_margin = inch \div 10

\* C11: a page whose margins and header leave no vertical room is rejected
\* when the LayoutManager is constructed; no LayoutManager has a row height
\* that is zero or negative.
RowHeightAlwaysPositive ==
    last_call.fn = "get_row_height" => last_call.value > 0

----------------------------------------------------------------------------
(* Claims about the column getters, checked under SpecColumns *)

ConfiguredWidths ==
    {layout_config[k] : k \in {"quarterly_column_width",
                               "monthly_column_width",
                               "weekly_column_width", "checkbox_size"}}

TotalConfiguredWidth ==
    ((layout_config["quarterly_column_width"]
      + layout_config["monthly_column_width"]
      + layout_config["weekly_column_width"]
      + layout_config["checkbox_size"]) * inch) \div 20

\* C12: a layout with a zero or negative column width, or whose four widths
\* sum to more than the page width, is rejected at construction: no column
\* position or width is ever computed from such a layout.
ColumnsValidatedAtConstruction ==
    last_call.fn \in {"get_column_x_positions", "get_column_widths"} =>
        /\ \A v \in ConfiguredWidths : v > 0
        /\ TotalConfiguredWidth <= page_config.width

\* C13: get_column_x_positions places quarterly, monthly, weekly, checkbox
\* contiguously left to right, each x being the previous x plus the previous
\* width, with quarterly x = (page width - total width) / 2, so that the gap
\* left of the quarterly column equals the gap right of the checkbox column;
\* with positive widths the x values strictly increase.
ColumnsContiguousAndCentred ==
    last_call.fn = "get_column_x_positions" =>
        LET x == last_call.value
            wd == get_column_widths
        IN  /\ ~last_call.raised
            /\ x.monthly = x.quarterly + wd.quarterly
            /\ x.weekly = x.monthly + wd.monthly
            /\ x.checkbox = x.weekly + wd.weekly
            /\ 2 * x.quarterly = page_config.width - TotalConfiguredWidth
            /\ x.quarterly = page_config.width - (x.checkbox + wd.checkbox)
            /\ (\A v \in ConfiguredWidths : v > 0) =>
                   /\ x.quarterly < x.monthly
                   /\ x.monthly < x.weekly
                   /\ x.weekly < x.checkbox

FixtureColumnsPositioned ==
    /\ last_call.fn = "get_column_x_positions"
    /\ layout_config = [quarterly_column_width |-> 25,
                        monthly_column_width |-> 25,
                        weekly_column_width |-> 90, checkbox_size |-> 3]
    /\ last_call.value.quarterly > 0

----------------------------------------------------------------------------
(* Claims about the month_lines scan, checked under SpecScan *)

Weeks(list) == {list[i] : i \in 1..Len(list)}

\* C4: for every non-catch-up week the month get_month_for_week returns
\* is the month the scan puts the week in; the two never disagree.
TableAgreesWithScan ==
    /\ \A m \in 1..12 : \A w \in Weeks(month_lines[m]) :
           get_month_for_week(w) = m
    /\ pc = "done" =>
           \A w \in 1..52 :
               ~is_catch_up_week(w) =>
                   /\ get_month_for_week(w) \in 1..12
                   /\ w \in Weeks(month_lines[get_month_for_week(w)])

MonthlyColumnScanDone ==
    /\ pc = "done"
    /\ proc = "draw_monthly_column"
    /\ month_lines[6] = <<22, 23, 24, 25>>

\* C5: the scan never moves current_month past 12, and when it ends every
\* month 1..12 holds exactly 4 weeks in increasing order, the twelve lists
\* being the 48 non-catch-up weeks with no week in two months.
ScanPartitionsWeeks ==
    /\ pc # "KeyError"
    /\ current_month <= 12
    /\ pc = "done" =>
           /\ \A m \in 1..12 :
                  /\ Len(month_lines[m]) = 4
                  /\ \A i \in 1..3 : month_lines[m][i] < month_lines[m][i + 1]
           /\ UNION {Weeks(month_lines[m]) : m \in 1..12} =
                  (1..52) \ {13, 26, 39, 52}
           /\ \A m \in 1..12 : \A n \in 1..12 :
                  m # n => Weeks(month_lines[m]) \cap Weeks(month_lines[n]) = {}

GridScanDone ==
    /\ pc = "done"
    /\ proc = "draw_grid"
    /\ current_month = 12
    /\ month_lines[12] = <<48, 49, 50, 51>>

----------------------------------------------------------------------------
(* Claims about the boxes of draw_grid, checked under SpecGrid *)

MarksBy(by) == SelectSeq(marks, LAMBDA m : m.by = by)

BoxTop(m) == m.y + m.h
BoxBottom(m) == m.y
BoxLeft(m) == m.x
BoxRight(m) == m.x + m.w

QuarterLoopLeft == pc \in {"scan", "done", "returned", "KeyError"}

\* C14: for every quarter q in 1..4 the quarter box of draw_grid has its
\* top at the position of week 13(q-1)+1, its bottom one row height below
\* the position of week 13q, its left at the quarterly column and its right
\* at the right edge of the checkbox column; exactly 4 boxes are drawn, each
\* 13 row heights tall, the bottom of one being the top of the next.
QuarterBoxesAsSpecified ==
    LET boxes == MarksBy("quarter_box")
    IN  /\ Len(boxes) <= 4
        /\ QuarterLoopLeft => Len(boxes) = 4
        /\ \A q \in 1..Len(boxes) :
               /\ boxes[q].kind = "rect"
               /\ BoxTop(boxes[q]) = get_week_y_position(13 * (q - 1) + 1)
               /\ BoxBottom(boxes[q]) =
                      get_week_y_position(13 * q) - get_row_height
               /\ BoxLeft(boxes[q]) = get_column_x_positions.quarterly
               /\ BoxRight(boxes[q]) =
                      get_column_x_positions.checkbox
                          + get_column_widths.checkbox
               /\ boxes[q].h = 13 * get_row_height
               /\ q > 1 => BoxTop(boxes[q]) = BoxBottom(boxes[q - 1])

FourQuarterBoxesDrawn ==
    /\ pc = "returned"
    /\ get_row_height > 0
    /\ Len(MarksBy("quarter_box")) = 4
    /\ "show_row_stripes" \notin DOMAIN layout_config

\* first and last week of month m in the sequential partition: four weeks
\* a month, one catch-up week after every third month
FirstWeekOfMonth(m) == 4 * (m - 1) + 1 + (m - 1) \div 3

LastWeekOfMonth(m) == FirstWeekOfMonth(m) + 3

\* C15: for every month m in 1..12 draw_grid draws exactly one month box,
\* from the top of the first week of m in the sequential partition to the
\* bottom of its last week, from the monthly column to the right edge of the
\* checkbox column; no month is skipped, so exactly 12 boxes are drawn, each
\* 4 row heights tall and so of positive height when the row height is.
MonthBoxesAsSpecified ==
    LET boxes == MarksBy("month_box")
    IN  /\ Len(boxes) <= 12
        /\ (pc = "done" /\ proc = "draw_grid") => Len(boxes) = month_num - 1
        /\ pc = "returned" => Len(boxes) = 12
        /\ \A m \in 1..Len(boxes) :
               /\ boxes[m].kind = "rect"
               /\ BoxTop(boxes[m]) = get_week_y_position(FirstWeekOfMonth(m))
               /\ BoxBottom(boxes[m]) =
                      get_week_y_position(LastWeekOfMonth(m)) - get_row_height
               /\ BoxLeft(boxes[m]) = get_column_x_positions.monthly
               /\ BoxRight(boxes[m]) =
                      get_column_x_positions.checkbox
                          + get_column_widths.checkbox
               /\ boxes[m].h = 4 * get_row_height
               /\ get_row_height > 0 => boxes[m].h > 0

TwelveMonthBoxesDrawn ==
    /\ pc = "returned"
    /\ get_row_height > 0
    /\ Len(MarksBy("month_box")) = 12
    /\ "show_row_stripes" \in DOMAIN layout_config

----------------------------------------------------------------------------
(* Claims about the rows of draw_weekly_column, checked under SpecWeekly *)

\* the Monday of the week that contains January 4 of y
MondayOfJan4Week(y) ==
    CHOOSE n \in (ymd2ord(y, 1, 4) - 6)..ymd2ord(y, 1, 4) : weekday(n) = 0

HasIsoWeek53(y) == isocalendar(ymd2ord(y, 12, 28))[2] = 53

\* the ISO week shown on row r of year y
IsoWeekOfRow(y, r) == IF HasIsoWeek53(y) THEN r + 1 ELSE r

ExpectedMonday(y, r) == MondayOfJan4Week(y) + 7 * (IsoWeekOfRow(y, r) - 1)

\* the rows to look at: the row labelled last, and all rows at the end
RowsJustLabelled ==
    IF pc = "returned" THEN 1..Len(MarksBy("week_label"))
    ELSE {Len(MarksBy("week_label"))} \ {0}

\* C16: for every year y and row r in 1..52 the range labelled on row r
\* starts on the Monday M = W1 + 7*(k-1) days and ends on M + 4 days, W1
\* being the Monday of the week of January 4 of y and k = r+1 if December 28
\* of y lies in ISO week 53, else k = r; row 1 of 2020 is labelled "6-10"
\* and row 1 of a 52-week year starts on the Monday of ISO week 1.
RowLabelsFollowIsoWeeks ==
    LET labels == MarksBy("week_label")
    IN  /\ Len(labels) <= 52
        /\ pc = "returned" => Len(labels) = 52
        /\ \A r \in RowsJustLabelled :
               LET M == ExpectedMonday(year, r)
               IN  /\ labels[r].text =
                          PyStr(ord2ymd(M).day) \o "-"
                              \o PyStr(ord2ymd(M + 4).day)
                   /\ isocalendar(M) = <<year, IsoWeekOfRow(year, r), 1>>
                   /\ isocalendar(M + 4) = <<year, IsoWeekOfRow(year, r), 5>>
        /\ (year = 2020 /\ Len(labels) >= 1) => labels[1].text = "6-10"
        /\ (~HasIsoWeek53(year) /\ Len(labels) >= 1) =>
               /\ isocalendar(ExpectedMonday(year, 1)) = <<year, 1, 1>>
               /\ labels[1].text =
                      PyStr(ord2ymd(isoweek1monday(year)).day) \o "-"
                          \o PyStr(ord2ymd(isoweek1monday(year) + 4).day)

Rows2020Labelled ==
    /\ pc = "returned"
    /\ year = 2020
    /\ MarksBy("week_label")[1].text = "6-10"
    /\ MarksBy("week_label")[52].text = "28-1"

----------------------------------------------------------------------------
(* Claims about main().                                                     *)

MainExited == main_pc = "exit"

ConfigRead == config_file.value

SuccessPrinted ==
    \E i \in 1..Len(stdout) : stdout[i][1] = "PDF generated successfully: "

YearHas53Weeks(y) == isoweek1monday(y + 1) - isoweek1monday(y) = 53 * 7

NotePrinted == \E i \in 1..Len(stdout) : stdout[i] = iso_note

ConfigLoaded == \E i \in 1..Len(events) : events[i] = "GoalTrackerConfig"

OutputPathDetermined == \E i \in 1..Len(events) : events[i] = "output_path"

\* when the note is among the events, only the loading of the configuration
\* and the choice of the output path come before it, and it is the first
\* line of standard output
NoteComesFirst ==
    \A i \in 1..Len(events) :
        events[i] = "iso_note" =>
            /\ \A j \in 1..(i - 1) :
                   events[j] \in {"GoalTrackerConfig", "output_path"}
            /\ stdout[1] = iso_note
            /\ \A k \in 2..Len(stdout) : stdout[k] # iso_note

\* C18 as stated: in every run of main() the note about starting at ISO
\* week 2 is printed iff the selected year has an ISO week 53 and the
\* configuration loaded, and when printed it comes before generation starts
\* and before the success line.
NotePrintedIffWeek53AndLoaded ==
    /\ MainExited => (NotePrinted <=> (YearHas53Weeks(main_year)
                                        /\ ConfigLoaded))
    /\ NoteComesFirst

\* C18, amended: the note is printed iff the selected year has an ISO week
\* 53, the configuration loaded and the output path was determined (given
\* by --output or read from the output section); when printed it comes
\* before generation starts and before the success line.
NotePrintedIffWeek53AndPathKnown ==
    /\ MainExited => (NotePrinted <=> (/\ YearHas53Weeks(main_year)
                                        /\ ConfigLoaded
                                        /\ OutputPathDetermined))
    /\ (main_pc \in {"construct", "generate", "success"}) =>
           (NotePrinted <=> YearHas53Weeks(main_year))
    /\ (main_pc \in {"load_config", "output_path", "iso_note"}) =>
           ~NotePrinted
    /\ NoteComesFirst

NotePrintedThenGenerated ==
    /\ MainExited
    /\ main_year = 2020
    /\ stdout = <<iso_note, success_line("out.pdf")>>
    /\ events = <<"GoalTrackerConfig", "output_path", "iso_note",
                  "LayoutManager">> \o generate_events \o <<"success">>

\* C19: a configuration that lacks one of the top-level keys page, fonts,
\* colors, layout, output fails with a configuration error inside the
\* construction of GoalTrackerConfig: no LayoutManager has been constructed,
\* no layout value computed and nothing drawn or created when main() exits.
MissingKeyFailsAtLoad ==
    (/\ config_file.given
     /\ ConfigRead.exists
     /\ ConfigRead.yaml_ok
     /\ ConfigRead.keys # TopLevelKeys) =>
        /\ MainExited
        /\ raised_exc = "ValueError"
        /\ exit_code = Given(1)
        /\ events = <<>>
        /\ page_config = NotConstructed
        /\ calculated_row_height = 0
        /\ marks = <<>>
        /\ \E k \in TopLevelKeys \ ConfigRead.keys :
               stderr = <<<<"Error generating PDF: ",
                            "Missing required config key: " \o k>>>>

LayoutKeyMissing ==
    /\ MainExited
    /\ config_file.given
    /\ ConfigRead.exists
    /\ ConfigRead.yaml_ok
    /\ ConfigRead.keys = TopLevelKeys \ {"layout"}
    /\ raised_exc = "ValueError"

----------------------------------------------------------------------------
(* Claims about the foot of the grid, the last row, the canvas state and    *)
(* the order of drawing.                                                    *)

\* the bottom edge of row 52
LastRowBottom == get_week_y_position(WEEKS_IN_YEAR) - get_row_height

MondayOfDec28Week(y) == ymd2ord(y, 12, 28) - weekday(ymd2ord(y, 12, 28))

\* C22: for every year y the week shown on row 52 is the last ISO week of y:
\* its Monday is one of December 22..28 of y, the Monday of the week that
\* contains December 28, in 52-week years and in years with an ISO week 53.
LastRowIsLastIsoWeek ==
    LET labels == MarksBy("week_label")
        M == MondayOfDec28Week(year)
    IN  Len(labels) >= WEEKS_IN_YEAR =>
            /\ ord2ymd(M).year = year
            /\ ord2ymd(M).month = 12
            /\ ord2ymd(M).day \in 22..28
            /\ labels[WEEKS_IN_YEAR].text =
                   PyStr(ord2ymd(M).day) \o "-" \o PyStr(ord2ymd(M + 4).day)
            /\ M = ExpectedMonday(year, WEEKS_IN_YEAR)
            /\ isocalendar(M)[1] = year
            /\ isocalendar(M)[2] = (IF HasIsoWeek53(year) THEN 53 ELSE 52)
            /\ isocalendar(M + 7)[1] = year + 1

LastRowOf2026And2024 ==
    /\ pc = "returned"
    /\ \/ year = 2026 /\ MarksBy("week_label")[WEEKS_IN_YEAR].text = "28-1"
       \/ year = 2024 /\ MarksBy("week_label")[WEEKS_IN_YEAR].text = "23-27"

LastOp == canvas.ops[Len(canvas.ops)]

\* C23: starting from a canvas with black stroke and fill and a solid dash,
\* after any sequence of draw_line, draw_rectangle and draw_text calls the
\* stroke and fill colours are black and the dash is solid again; each call
\* emits its mark with the requested colour and has restored the state when
\* it returns, and draw_text uses drawRightString only when align is
\* "right" and drawString otherwise.
CanvasStateRestored ==
    /\ canvas.stroke = Black
    /\ canvas.fill = Black
    /\ canvas.dash = <<>>
    /\ last_call.fn = "draw_line" =>
           /\ LastOp.op = "line"
           /\ LastOp.stroke = last_call.args[1]
           /\ LastOp.dash = (IF last_call.args[2].given
                             THEN last_call.args[2].value ELSE <<>>)
           /\ LastOp.fill = Black
    /\ last_call.fn = "draw_rectangle" =>
           /\ LastOp.op = "rect"
           /\ LastOp.stroke = last_call.args[1]
           /\ LastOp.dash = <<>>
           /\ LastOp.fill = Black
    /\ last_call.fn = "draw_text" =>
           /\ LastOp.op = (IF last_call.args[2] = "right"
                           THEN "drawRightString" ELSE "drawString")
           /\ LastOp.fill = last_call.args[1]
           /\ LastOp.stroke = Black
           /\ LastOp.dash = <<>>

DashedColouredCallsMade ==
    /\ Len(canvas.ops) = 3
    /\ canvas.ops[1].op = "line"
    /\ canvas.ops[1].dash = <<2, 2>>
    /\ canvas.ops[1].stroke = <<255, 0, 0>>
    /\ canvas.ops[2].op = "drawRightString"
    /\ canvas.ops[2].fill = <<200, 200, 200>>
    /\ canvas.ops[3].op = "rect"
    /\ canvas.ops[3].stroke = <<255, 0, 0>>

GridMarks == {"row_stripe", "weekly_line", "quarter_box", "month_box"}

LabelMarks == {"quarter_label", "month_label", "week_label"}

\* every mark drawn by one of A comes before every mark drawn by one of B:
\* among the marks of A and B no mark of B is directly followed by one of A
AllBefore(A, B) ==
    LET both == SelectSeq(marks, LAMBDA m : m.by \in A \cup B)
    IN  \A k \in 1..(Len(both) - 1) :
            ~(both[k].by \in B /\ both[k + 1].by \in A)

Count(seq, e) == Cardinality({i \in 1..Len(seq) : seq[i] = e})

\* the steps generate() has completed are the first Len(events) of its
\* eight steps, in the order of the source
InSourceOrder ==
    LET steps == <<"mkdir", "draw_header", "draw_grid",
                   "draw_quarterly_column", "draw_monthly_column",
                   "draw_weekly_column", "draw_checkbox_column", "save">>
    IN  /\ Len(events) <= Len(steps)
        /\ events = SubSeq(steps, 1, Len(events))

\* C24: in every generate() run all row-stripe fills come before any weekly
\* grid line, every weekly grid line before any quarter or month box, and
\* all marks of draw_grid before any quarter, month or day-range label; the
\* output directory is created before anything is drawn, and the canvas is
\* saved exactly once, after all six drawing sections have completed.
DrawnInOrderSavedOnce ==
    /\ AllBefore({"row_stripe"}, {"weekly_line"})
    /\ AllBefore({"weekly_line"}, {"quarter_box", "month_box"})
    /\ AllBefore(GridMarks, LabelMarks)
    /\ InSourceOrder
    /\ marks # <<>> => (events # <<>> /\ events[1] = "mkdir")
    /\ Count(events, "save") <= 1
    /\ Count(events, "save") = 1 <=> gen_pc = "returned"
    /\ gen_pc = "returned" =>
           /\ Len(events) = 8
           /\ events[8] = "save"
           /\ \A by \in (GridMarks \ {"row_stripe"}) \cup LabelMarks
                          \cup {"checkbox"} : Len(MarksBy(by)) > 0
    /\ gen_pc = "save" => Len(MarksBy("checkbox")) = WEEKS_IN_YEAR

StripedPageSaved ==
    /\ gen_pc = "returned"
    /\ events[8] = "save"
    /\ Len(MarksBy("row_stripe")) = 50
    /\ Len(MarksBy("weekly_line")) = 52
    /\ Len(MarksBy("quarter_box")) = 4
    /\ Len(MarksBy("month_box")) = 12
    /\ Len(MarksBy("quarter_label")) = 4
    /\ Len(MarksBy("month_label")) = 12
    /\ Len(MarksBy("week_label")) = 52
    /\ Len(marks) = 314

====
